---- MODULE Spec2Model ----
(***************************************************************************)
(* Sentinel OSINT privacy-hardening core (src/main.py, class SentinelCore):*)
(* the risk scorer simulate_adversary, the entity-backed hardener          *)
(* nlp_harden and the lexical hardener fallback_harden, driven by the      *)
(* /process handler.  Texts are ASCII strings; a character is a string of   *)
(* length one.  Positions are 1-based here; the entity spans keep Python's *)
(* 0-based half-open offsets (start_char, end_char).                       *)
(***************************************************************************)
EXTENDS Integers, Sequences, FiniteSets, TLC

VARIABLES nlp, taxonomy, pc, tokens, text, score, logs, risk, evidence,
          ents, hardened, safe_text

vars == <<nlp, taxonomy, pc, tokens, text, score, logs, risk, evidence,
          ents, hardened, safe_text>>

---------------------------------------------------------------------------
(* Characters and the character classes of the two regular expressions.    *)

LowerLetters == "abcdefghijklmnopqrstuvwxyz"
UpperLetters == "ABCDEFGHIJKLMNOPQRSTUVWXYZ"
DigitChars == "0123456789"

At(s, i) == SubSeq(s, i, i)

Chars(s) == {At(s, i) : i \in 1..Len(s)}

Letters == Chars(LowerLetters) \cup Chars(UpperLetters)
Digits == Chars(DigitChars)
Alnum == Letters \cup Digits

\* [a-zA-Z0-9_.+-]
IsLocalChar(c) == c \in Alnum \cup {"_", ".", "+", "-"}
\* [a-zA-Z0-9-]
IsDomainChar(c) == c \in Alnum \cup {"-"}
\* [a-zA-Z0-9-.]
IsTailChar(c) == c \in Alnum \cup {"-", "."}
\* \d
IsDigit(c) == c \in Digits
\* [\s-]
IsSep(c) == c \in {" ", "\t", "\n", "\r", "-"}

ToLower == [c \in Chars(UpperLetters) |->
              At(LowerLetters, CHOOSE i \in 1..26 : At(UpperLetters, i) = c)]
ToUpper == [c \in Chars(LowerLetters) |->
              At(UpperLetters, CHOOSE i \in 1..26 : At(LowerLetters, i) = c)]

LowerChar(c) == IF c \in DOMAIN ToLower THEN ToLower[c] ELSE c
UpperChar(c) == IF c \in DOMAIN ToUpper THEN ToUpper[c] ELSE c

RECURSIVE upper(_)
upper(s) == IF s = "" THEN "" ELSE UpperChar(Head(s)) \o upper(Tail(s))

Min(a, b) == IF a < b THEN a ELSE b

---------------------------------------------------------------------------
(* The regular expressions, matched as Python's backtracking engine does:  *)
(* MatchEnd(p, s, i) is the position just after the match of p that starts *)
(* at i, and 0 when p does not match at i.                                 *)

EMAIL == [kind |-> "email"]
PHONE == [kind |-> "phone"]
\* re.compile(re.escape(k), re.IGNORECASE)
IgnoreCase(k) == [kind |-> "literal", term |-> k]

\* End of the maximal run of characters of a class that starts at i.
RECURSIVE LocalRun(_, _)
LocalRun(s, i) ==
  IF i <= Len(s) /\ IsLocalChar(At(s, i)) THEN LocalRun(s, i + 1) ELSE i
RECURSIVE DomainRun(_, _)
DomainRun(s, i) ==
  IF i <= Len(s) /\ IsDomainChar(At(s, i)) THEN DomainRun(s, i + 1) ELSE i
RECURSIVE TailRun(_, _)
TailRun(s, i) ==
  IF i <= Len(s) /\ IsTailChar(At(s, i)) THEN TailRun(s, i + 1) ELSE i

\* n digits at positions i .. i+n-1
DigitsAt(s, i, n) ==
  i + n - 1 <= Len(s) /\ \A j \in i..(i + n - 1) : IsDigit(At(s, j))

\* the local part written with * for +
EmailEndNoLocal(s, i) ==
  LET j == LocalRun(s, i)
      k == DomainRun(s, j + 1)
      m == TailRun(s, k + 1)
  IN IF /\ j <= Len(s) /\ At(s, j) = "@"
        /\ k > j + 1 /\ k <= Len(s) /\ At(s, k) = "."
        /\ m > k + 1
     THEN m ELSE 0

\* [a-zA-Z0-9_.+-]+@[a-zA-Z0-9-]+\.[a-zA-Z0-9-.]+ : each greedy run is
\* forced, since the character that must follow it is outside its class.
EmailEnd(s, i) ==
  LET j == LocalRun(s, i)
      k == DomainRun(s, j + 1)
      m == TailRun(s, k + 1)
  IN IF /\ j > i /\ j <= Len(s) /\ At(s, j) = "@"
        /\ k > j + 1 /\ k <= Len(s) /\ At(s, k) = "."
        /\ m > k + 1
     THEN m ELSE 0

\* The optional group (\+?\d{1,3}[\s-]?) with d digits, then \d{10}.
PrefixEnd(s, i, d) ==
  LET p == IF i <= Len(s) /\ At(s, i) = "+" THEN 1 ELSE 0
      q == i + p + d
      sp == IF q <= Len(s) /\ IsSep(At(s, q)) THEN 1 ELSE 0
  IN IF DigitsAt(s, i + p, d) /\ DigitsAt(s, q + sp, 10)
     THEN q + sp + 10 ELSE 0

\* the group written without its "?"
PhoneEndPrefixed(s, i) ==
  IF PrefixEnd(s, i, 3) # 0 THEN PrefixEnd(s, i, 3)
  ELSE IF PrefixEnd(s, i, 2) # 0 THEN PrefixEnd(s, i, 2)
  ELSE PrefixEnd(s, i, 1)

\* (\+?\d{1,3}[\s-]?)?(\d{10}) : the group is tried first, its digit count
\* greedy (3, 2, 1); the group is skipped only when every try fails.
PhoneEnd(s, i) ==
  IF PrefixEnd(s, i, 3) # 0 THEN PrefixEnd(s, i, 3)
  ELSE IF PrefixEnd(s, i, 2) # 0 THEN PrefixEnd(s, i, 2)
  ELSE IF PrefixEnd(s, i, 1) # 0 THEN PrefixEnd(s, i, 1)
  ELSE IF DigitsAt(s, i, 10) THEN i + 10 ELSE 0

\* the literal term compiled without re.IGNORECASE
LiteralEndCased(s, i, k) ==
  IF i + Len(k) - 1 <= Len(s) /\ SubSeq(s, i, i + Len(k) - 1) = k
  THEN i + Len(k) ELSE 0

\* a literal term, letter case ignored
LiteralEnd(s, i, k) ==
  IF /\ i + Len(k) - 1 <= Len(s)
     /\ \A j \in 1..Len(k) : LowerChar(At(s, i + j - 1)) = LowerChar(At(k, j))
  THEN i + Len(k) ELSE 0

MatchEnd(p, s, i) ==
  CASE p.kind = "email" -> EmailEnd(s, i)
    [] p.kind = "phone" -> PhoneEnd(s, i)
    [] p.kind = "literal" -> LiteralEnd(s, i, p.term)

\* re.search(p, s) is not None
re_search(p, s) == \E i \in 1..Len(s) : MatchEnd(p, s, i) # 0

\* re.sub: find the leftmost match at or after pos, replace it, resume
\* after it; the text after the last match is kept.
RECURSIVE SubFrom(_, _, _, _)
SubFrom(p, repl, s, pos) ==
  LET starts == {i \in pos..Len(s) : MatchEnd(p, s, i) # 0}
  IN IF starts = {} THEN SubSeq(s, pos, Len(s))
     ELSE LET i == CHOOSE x \in starts : \A y \in starts : x <= y
          IN SubSeq(s, pos, i - 1) \o repl
               \o SubFrom(p, repl, s, MatchEnd(p, s, i))

\* re.sub with count=1
SubFirst(p, repl, s) ==
  LET starts == {i \in 1..Len(s) : MatchEnd(p, s, i) # 0}
  IN IF starts = {} THEN s
     ELSE LET i == CHOOSE x \in starts : \A y \in starts : x <= y
          IN SubSeq(s, 1, i - 1) \o repl
               \o SubSeq(s, MatchEnd(p, s, i), Len(s))

re_sub(p, repl, s) == SubFrom(p, repl, s, 1)

\* k in s
Contains(s, k) ==
  \E i \in 1..(Len(s) - Len(k) + 1) : SubSeq(s, i, i + Len(k) - 1) = k

---------------------------------------------------------------------------
(* SentinelCore.__init__: the taxonomy, a dict in insertion order.         *)

Taxonomy ==
  << [k |-> "google",    v |-> "a Tier-1 Tech Corporation"],
     [k |-> "microsoft", v |-> "a Global Software Leader"],
     [k |-> "manager",   v |-> "Strategic Director"],
     [k |-> "engineer",  v |-> "Technical Specialist"],
     [k |-> "sql",       v |-> "Structured Database Systems"],
     [k |-> "hyderabad", v |-> "a major Tech Hub"] >>

EmailLog == "LEAK: Direct email identified. Vulnerable to Phishing."
PhoneLog == "LEAK: Phone contact exposed. Vulnerable to SIM-swap."
ReconLogAsIs(brand) == "RECON: Connection to " \o brand \o " found."

\* f"RECON: Connection to {brand.upper()} found."
ReconLog(brand) == "RECON: Connection to " \o upper(brand) \o " found."

EmailWeight == 40
PhoneWeight == 30
BrandWeight == 15
ScoreCap == 100

IdGateway == "[ID_GATEWAY]"
VerifiedLine == "[VERIFIED_LINE]"

\* the labels nlp_harden redacts
HiddenLabels == {"PERSON", "ORG", "GPE", "FAC", "LOC"}
Placeholder(label) == "[HIDDEN_" \o label \o "]"

---------------------------------------------------------------------------
(* simulate_adversary, statement by statement.                             *)

\* brand in text, the call of lower() left out
BrandInCased(brand, s) ==
  \E i \in 1..(Len(s) - Len(brand) + 1) :
    SubSeq(s, i, i + Len(brand) - 1) = brand

\* brand in text.lower(): text.lower() lowers each character in place, so
\* the brand occurs in it where the lowered characters of text spell it
BrandIn(brand, s) ==
  \E i \in 1..(Len(s) - Len(brand) + 1) :
    \A j \in 1..Len(brand) : LowerChar(At(s, i + j - 1)) = At(brand, j)

\* for brand in self.taxonomy.keys(): ... ; the pair <<score, logs>> after
\* the iterations i .. Len(tax)
RECURSIVE ScanBrands(_, _, _, _, _)
ScanBrands(tax, i, s, sc, lg) ==
  IF i > Len(tax) THEN <<sc, lg>>
  ELSE IF BrandIn(tax[i].k, s)
       THEN ScanBrands(tax, i + 1, s, sc + BrandWeight,
                       Append(lg, ReconLog(tax[i].k)))
       ELSE ScanBrands(tax, i + 1, s, sc, lg)

Unclamped(sc) == sc

\* min(score, 100)
Clamp(sc) == Min(sc, ScoreCap)

---------------------------------------------------------------------------
(* nlp_harden and fallback_harden.                                         *)

\* Python slices s[:n] and s[n:], n >= 0, clamped to the length of s
SliceTo(s, n) == SubSeq(s, 1, Min(n, Len(s)))
SliceFrom(s, n) == SubSeq(s, Min(n, Len(s)) + 1, Len(s))

\* one iteration of the loop over doc.ents
ReplaceEnt(h, ent) ==
  IF ent.label \in HiddenLabels
  THEN SliceTo(h, ent.start) \o Placeholder(ent.label) \o SliceFrom(h, ent.end)
  ELSE h

\* for ent in reversed(doc.ents): the entities i, i-1, .., 1 in that order
RECURSIVE ReplaceDown(_, _, _)
ReplaceDown(h, es, i) ==
  IF i = 0 THEN h ELSE ReplaceDown(ReplaceEnt(h, es[i]), es, i - 1)

\* for ent in doc.ents, reversed() left out
RECURSIVE ReplaceUp(_, _, _)
ReplaceUp(h, es, i) ==
  IF i > Len(es) THEN h ELSE ReplaceUp(ReplaceEnt(h, es[i]), es, i + 1)

ReplaceForward(h, es) == ReplaceUp(h, es, 1)

ReplaceEntities(h, es) == ReplaceDown(h, es, Len(es))

\* for k, v in self.taxonomy.items(): safe = pattern.sub(v, safe)
RECURSIVE SubBrands(_, _, _)
SubBrands(tax, i, s) ==
  IF i > Len(tax) THEN s
  ELSE SubBrands(tax, i + 1, re_sub(IgnoreCase(tax[i].k), tax[i].v, s))

fallback_harden(tax, s) ==
  SubBrands(tax, 1, re_sub(PHONE, VerifiedLine, re_sub(EMAIL, IdGateway, s)))

---------------------------------------------------------------------------
(* Inputs.  A text is the concatenation of the tokens the recogniser sees  *)
(* in it; the recogniser's spans lie on token boundaries.                  *)

MaxFrags == 2
NumReq == 2

Requests == 1..NumReq

\* pieces that build, split and join the shapes the patterns look for
Fragments ==
  { " ", "+91-", "12", "9876543210", "jane@acme", ".com", "@b.c", "a@b.c ",
    "Google", "microsof", "Engineer", "SQL", "ql" }

\* pieces of a text the recogniser finds entities in
EntFragments == { "Jane ", "jane@acme", ".com", "9876543210", "a@b.c " }

\* one phrase per indicator of simulate_adversary
Phrases ==
  << "mail jane@acme.com ", "call 9876543210 ", "Google ", "Microsoft ",
     "Manager ", "Engineer ", "SQL ", "Hyderabad " >>

\* the labels the recogniser gives; DATE stands for the labels not redacted
NerLabels == {"ORG", "DATE"}

RECURSIVE Join(_)
Join(toks) == IF toks = <<>> THEN "" ELSE Head(toks) \o Join(Tail(toks))

TokenSeqs(F) == UNION {[1..n -> F] : n \in 0..MaxFrags}

RECURSIVE Pick(_, _)
Pick(S, i) ==
  IF i > Len(Phrases) THEN <<>>
  ELSE (IF i \in S THEN <<Phrases[i]>> ELSE <<>>) \o Pick(S, i + 1)

PhraseSeqs == {Pick(S, 1) : S \in SUBSET (1..Len(Phrases))}

LexInputs == TokenSeqs(Fragments) \cup PhraseSeqs
EntInputs == TokenSeqs(EntFragments)
ConcInputs == {<<"jane@acme.com">>, <<"Google 9876543210">>}

\* doc.ents: spans on token boundaries, pairwise disjoint, in any order
Offset(toks, i) == Len(Join(SubSeq(toks, 1, i)))

Spans(toks) ==
  {[start |-> Offset(toks, a), end |-> Offset(toks, b), label |-> l] :
     a \in 0..Len(toks), b \in 0..Len(toks), l \in NerLabels}

Disjoint(e, f) == e.end <= f.start \/ f.end <= e.start

SpanSeqs(toks) ==
  UNION {{q \in [1..m -> {e \in Spans(toks) : e.start < e.end}] :
            \A i \in 1..m : \A j \in (i + 1)..m : Disjoint(q[i], q[j])} :
         m \in 0..Len(toks)}

---------------------------------------------------------------------------
(* The /process handler: simulate_adversary, then nlp_harden.  score, logs *)
(* and hardened are locals of the running call, one frame per request.     *)

\* the locals kept on one object every request shares
SharedFrame(r) == 1

Frame(r) == r

Set(f, r, x) == [f EXCEPT ![r] = x]

InitLocals ==
  /\ taxonomy = Taxonomy
  /\ text = [r \in Requests |-> Join(tokens[r])]
  /\ score = [r \in Requests |-> 0]
  /\ logs = [r \in Requests |-> <<>>]
  /\ risk = [r \in Requests |-> 0]
  /\ evidence = [r \in Requests |-> <<>>]
  /\ ents = [r \in Requests |-> <<>>]
  /\ hardened = [r \in Requests |-> ""]
  /\ safe_text = [r \in Requests |-> ""]

\* one request, every input
Init ==
  /\ nlp \in {"None", "loaded"}
  /\ \E toks \in (IF nlp = "None" THEN LexInputs ELSE EntInputs) :
       tokens = [r \in Requests |-> IF r = 1 THEN toks ELSE <<>>]
  /\ pc = [r \in Requests |-> IF r = 1 THEN "email" ELSE "off"]
  /\ InitLocals

\* every request in flight at once
ConcInit ==
  /\ nlp \in {"None", "loaded"}
  /\ tokens \in [Requests -> ConcInputs]
  /\ pc = [r \in Requests |-> "email"]
  /\ InitLocals

\* logs = []; score = 0; if re.search(<email>, text): ...
CheckEmail(r) ==
  /\ pc[r] = "email"
  /\ IF re_search(EMAIL, text[r])
     THEN /\ score' = Set(score, Frame(r), 0 + EmailWeight)
          /\ logs' = Set(logs, Frame(r), <<EmailLog>>)
     ELSE /\ score' = Set(score, Frame(r), 0)
          /\ logs' = Set(logs, Frame(r), <<>>)
  /\ pc' = Set(pc, r, "phone")
  /\ UNCHANGED <<nlp, taxonomy, tokens, text, risk, evidence, ents,
                 hardened, safe_text>>

\* if re.search(<phone>, text): ...
CheckPhone(r) ==
  /\ pc[r] = "phone"
  /\ IF re_search(PHONE, text[r])
     THEN /\ score' = Set(score, Frame(r), score[Frame(r)] + PhoneWeight)
          /\ logs' = Set(logs, Frame(r), Append(logs[Frame(r)], PhoneLog))
     ELSE UNCHANGED <<score, logs>>
  /\ pc' = Set(pc, r, "brands")
  /\ UNCHANGED <<nlp, taxonomy, tokens, text, risk, evidence, ents,
                 hardened, safe_text>>

\* for brand in self.taxonomy.keys(): ...
ScanTaxonomy(r) ==
  /\ pc[r] = "brands"
  /\ LET out == ScanBrands(taxonomy, 1, text[r], score[Frame(r)],
                           logs[Frame(r)])
     IN /\ score' = Set(score, Frame(r), out[1])
        /\ logs' = Set(logs, Frame(r), out[2])
  /\ pc' = Set(pc, r, "return")
  /\ UNCHANGED <<nlp, taxonomy, tokens, text, risk, evidence, ents,
                 hardened, safe_text>>

\* return min(score, 100), logs   (risk, logs = engine.simulate_adversary)
ReturnAssess(r) ==
  /\ pc[r] = "return"
  /\ risk' = Set(risk, r, Clamp(score[Frame(r)]))
  /\ evidence' = Set(evidence, r, logs[Frame(r)])
  /\ pc' = Set(pc, r, "harden")
  /\ UNCHANGED <<nlp, taxonomy, tokens, text, score, logs, ents, hardened,
                 safe_text>>

\* if nlp is None: return self.fallback_harden(text)   (safe = text)
EnterFallback(r) ==
  /\ pc[r] = "harden"
  /\ nlp = "None"
  /\ hardened' = Set(hardened, Frame(r), text[r])
  /\ pc' = Set(pc, r, "fb_email")
  /\ UNCHANGED <<nlp, taxonomy, tokens, text, score, logs, risk, evidence,
                 ents, safe_text>>

\* doc = nlp(text) returns; hardened = text
NlpCall(r) ==
  /\ pc[r] = "harden"
  /\ nlp # "None"
  /\ \E es \in SpanSeqs(tokens[r]) : ents' = Set(ents, r, es)
  /\ hardened' = Set(hardened, Frame(r), text[r])
  /\ pc' = Set(pc, r, "ents")
  /\ UNCHANGED <<nlp, taxonomy, tokens, text, score, logs, risk, evidence,
                 safe_text>>

\* doc = nlp(text) raises; nothing in nlp_harden catches it
NlpCallRaises(r) ==
  /\ pc[r] = "harden"
  /\ nlp # "None"
  /\ pc' = Set(pc, r, "raised")
  /\ UNCHANGED <<nlp, taxonomy, tokens, text, score, logs, risk, evidence,
                 ents, hardened, safe_text>>

\* for ent in reversed(doc.ents): ...
RedactEntities(r) ==
  /\ pc[r] = "ents"
  /\ hardened' = Set(hardened, Frame(r),
                     ReplaceEntities(hardened[Frame(r)], ents[r]))
  /\ pc' = Set(pc, r, "nlp_email")
  /\ UNCHANGED <<nlp, taxonomy, tokens, text, score, logs, risk, evidence,
                 ents, safe_text>>

\* hardened = re.sub(<email>, "[ID_GATEWAY]", hardened)
NlpSubEmail(r) ==
  /\ pc[r] = "nlp_email"
  /\ hardened' = Set(hardened, Frame(r),
                     re_sub(EMAIL, IdGateway, hardened[Frame(r)]))
  /\ pc' = Set(pc, r, "nlp_phone")
  /\ UNCHANGED <<nlp, taxonomy, tokens, text, score, logs, risk, evidence,
                 ents, safe_text>>

\* hardened = re.sub(<phone>, "[VERIFIED_LINE]", hardened); return hardened
NlpSubPhone(r) ==
  /\ pc[r] = "nlp_phone"
  /\ safe_text' = Set(safe_text, r,
                      re_sub(PHONE, VerifiedLine, hardened[Frame(r)]))
  /\ pc' = Set(pc, r, "done")
  /\ UNCHANGED <<nlp, taxonomy, tokens, text, score, logs, risk, evidence,
                 ents, hardened>>

\* safe = re.sub(<email>, "[ID_GATEWAY]", safe)
FallbackSubEmail(r) ==
  /\ pc[r] = "fb_email"
  /\ hardened' = Set(hardened, Frame(r),
                     re_sub(EMAIL, IdGateway, hardened[Frame(r)]))
  /\ pc' = Set(pc, r, "fb_phone")
  /\ UNCHANGED <<nlp, taxonomy, tokens, text, score, logs, risk, evidence,
                 ents, safe_text>>

\* safe = re.sub(<phone>, "[VERIFIED_LINE]", safe)
FallbackSubPhone(r) ==
  /\ pc[r] = "fb_phone"
  /\ hardened' = Set(hardened, Frame(r),
                     re_sub(PHONE, VerifiedLine, hardened[Frame(r)]))
  /\ pc' = Set(pc, r, "fb_brands")
  /\ UNCHANGED <<nlp, taxonomy, tokens, text, score, logs, risk, evidence,
                 ents, safe_text>>

\* for k, v in self.taxonomy.items(): ... ; return safe
FallbackSubBrands(r) ==
  /\ pc[r] = "fb_brands"
  /\ safe_text' = Set(safe_text, r, SubBrands(taxonomy, 1, hardened[Frame(r)]))
  /\ pc' = Set(pc, r, "done")
  /\ UNCHANGED <<nlp, taxonomy, tokens, text, score, logs, risk, evidence,
                 ents, hardened>>

Next ==
  \E r \in Requests :
    \/ CheckEmail(r)
    \/ CheckPhone(r)
    \/ ScanTaxonomy(r)
    \/ ReturnAssess(r)
    \/ EnterFallback(r)
    \/ NlpCall(r)
    \/ NlpCallRaises(r)
    \/ RedactEntities(r)
    \/ NlpSubEmail(r)
    \/ NlpSubPhone(r)
    \/ FallbackSubEmail(r)
    \/ FallbackSubPhone(r)
    \/ FallbackSubBrands(r)

Spec == Init /\ [][Next]_vars

ConcSpec == ConcInit /\ [][Next]_vars

---------------------------------------------------------------------------
(* The calls run alone, start to end.                                      *)

simulate_adversary(tax, s) ==
  LET e == re_search(EMAIL, s)
      p == re_search(PHONE, s)
      out == ScanBrands(tax, 1, s,
                        (IF e THEN EmailWeight ELSE 0)
                          + (IF p THEN PhoneWeight ELSE 0),
                        (IF e THEN <<EmailLog>> ELSE <<>>)
                          \o (IF p THEN <<PhoneLog>> ELSE <<>>))
  IN <<Clamp(out[1]), out[2]>>

nlp_harden(model, tax, s, es) ==
  IF model = "None" THEN fallback_harden(tax, s)
  ELSE re_sub(PHONE, VerifiedLine,
              re_sub(EMAIL, IdGateway, ReplaceEntities(s, es)))

---------------------------------------------------------------------------
(* The shapes the properties speak of, stated on the text itself.          *)

\* a character of the local part, "@", a run of domain characters, ".", a
\* character of the tail: the least a match of the email pattern holds
EmailShaped(s) ==
  \E j \in 2..Len(s) :
    /\ At(s, j) = "@"
    /\ IsLocalChar(At(s, j - 1))
    /\ \E k \in (j + 2)..(Len(s) - 1) :
         /\ At(s, k) = "."
         /\ \A x \in (j + 1)..(k - 1) : IsDomainChar(At(s, x))
         /\ IsTailChar(At(s, k + 1))

\* a run of 10 consecutive digits
PhoneShaped(s) ==
  \E i \in 1..(Len(s) - 9) : \A j \in i..(i + 9) : At(s, j) \in Digits

\* the term k occurs in s at position i, in any letter case
TermAt(s, k, i) ==
  /\ i >= 1
  /\ i + Len(k) - 1 <= Len(s)
  /\ \A j \in 1..Len(k) : LowerChar(At(s, i + j - 1)) = At(k, j)

HasTerm(s, k) == \E i \in 1..Len(s) : TermAt(s, k, i)

Terms == {"google", "microsoft", "manager", "engineer", "sql", "hyderabad"}

\* simulate_adversary has just returned to the handler
Assessed(r) == pc[r] = "harden"
Done(r) == pc[r] = "done"

\* 40*E + 30*P + 15*T
RawSum(s) ==
  (IF EmailShaped(s) THEN 40 ELSE 0) + (IF PhoneShaped(s) THEN 30 ELSE 0)
    + 15 * Cardinality({k \in Terms : HasTerm(s, k)})

---------------------------------------------------------------------------
\* C1: the score simulate_adversary returns is an integer from 0 to 100,
\* also when the email, the phone and all six terms fire (raw sum 160).
C1_ScoreInRange ==
  \A r \in Requests : Assessed(r) => risk[r] \in 0..100

C1_Witness ==
  \E r \in Requests :
    Assessed(r) /\ RawSum(text[r]) = 160 /\ score[Frame(r)] = 160
      /\ risk[r] = 100

\* C2: when the recogniser is missing, or its call on the text fails,
\* harden surfaces no error and returns the fallback result for the text.
C2_FallbackOnFailure ==
  \A r \in Requests :
    /\ pc[r] # "raised"
    /\ (Done(r) /\ nlp = "None")
         => safe_text[r] = fallback_harden(Taxonomy, text[r])

\* C3: the text the entity loop leaves: each redacted span's own
\* characters replaced by its placeholder, every other character kept.
IsHidden(e) == e.label \in {"PERSON", "ORG", "GPE", "FAC", "LOC"}

\* the characters of s from offset p on, the redacted spans replaced
RECURSIVE RedactedFrom(_, _, _)
RedactedFrom(s, es, p) ==
  IF p >= Len(s) THEN ""
  ELSE LET here == {i \in 1..Len(es) : IsHidden(es[i]) /\ es[i].start = p}
       IN IF here # {}
          THEN LET e == es[CHOOSE i \in here : TRUE]
               IN "[HIDDEN_" \o e.label \o "]" \o RedactedFrom(s, es, e.end)
          ELSE At(s, p + 1) \o RedactedFrom(s, es, p + 1)

Ascending(es) == \A i \in 1..(Len(es) - 1) : es[i].end <= es[i + 1].start

AfterEntities(r) == pc[r] = "nlp_email"

\* C3 as claimed: for the spans in any order
C3_AnyOrder ==
  \A r \in Requests :
    AfterEntities(r) => hardened[Frame(r)] = RedactedFrom(text[r], ents[r], 0)

\* C3 as amended: for the spans in ascending order of position
C3_AscendingOrder ==
  \A r \in Requests :
    (AfterEntities(r) /\ Ascending(ents[r]))
      => hardened[Frame(r)] = RedactedFrom(text[r], ents[r], 0)

C3_Witness ==
  \E r \in Requests :
    /\ AfterEntities(r)
    /\ Len(ents[r]) = 2
    /\ Ascending(ents[r])
    /\ IsHidden(ents[r][1]) /\ IsHidden(ents[r][2])
    /\ Len(hardened[Frame(r)]) # Len(text[r])

\* C4: the evidence has one line per indicator that fired, in the order
\* email, phone, then the terms google, microsoft, manager, engineer, sql,
\* hyderabad; its length is the number of indicators that fired.
IndicatorLines(s) ==
  << <<EmailShaped(s), "LEAK: Direct email identified. Vulnerable to Phishing.">>,
     <<PhoneShaped(s), "LEAK: Phone contact exposed. Vulnerable to SIM-swap.">>,
     <<HasTerm(s, "google"), "RECON: Connection to GOOGLE found.">>,
     <<HasTerm(s, "microsoft"), "RECON: Connection to MICROSOFT found.">>,
     <<HasTerm(s, "manager"), "RECON: Connection to MANAGER found.">>,
     <<HasTerm(s, "engineer"), "RECON: Connection to ENGINEER found.">>,
     <<HasTerm(s, "sql"), "RECON: Connection to SQL found.">>,
     <<HasTerm(s, "hyderabad"), "RECON: Connection to HYDERABAD found.">> >>

Fires(x) == x[1]

FiredLines(s) ==
  LET fired == SelectSeq(IndicatorLines(s), Fires)
  IN [i \in 1..Len(fired) |-> fired[i][2]]

FiredCount(s) ==
  Cardinality({i \in 1..8 : IndicatorLines(s)[i][1]})

C4_EvidenceOrder ==
  \A r \in Requests :
    Assessed(r) => /\ evidence[r] = FiredLines(text[r])
                   /\ Len(evidence[r]) = FiredCount(text[r])

C4_Witness ==
  \E r \in Requests :
    /\ Assessed(r)
    /\ Len(evidence[r]) = 3
    /\ EmailShaped(text[r]) /\ PhoneShaped(text[r])
    /\ HasTerm(text[r], "sql")

\* C5: a text with no email shape, no phone shape and no term, the empty
\* text included, is scored 0 with empty evidence.
Clean(s) ==
  ~EmailShaped(s) /\ ~PhoneShaped(s) /\ \A k \in Terms : ~HasTerm(s, k)

C5_CleanScoresZero ==
  \A r \in Requests :
    (Assessed(r) /\ Clean(text[r])) => (risk[r] = 0 /\ evidence[r] = <<>>)

C5_Witness ==
  \E r \in Requests :
    Assessed(r) /\ text[r] = "" /\ risk[r] = 0 /\ evidence[r] = <<>>

\* C6: interleaved requests each get the result their calls give when run
\* alone, and no step changes the taxonomy or the recogniser flag.
C6_Isolation ==
  /\ [](\A r \in Requests :
          Done(r) =>
            /\ <<risk[r], evidence[r]>> = simulate_adversary(Taxonomy, text[r])
            /\ safe_text[r] = nlp_harden(nlp, Taxonomy, text[r], ents[r]))
  /\ [][nlp' = nlp /\ taxonomy' = taxonomy]_vars

C6_Witness ==
  /\ \A r \in Requests : Done(r)
  /\ \E q, r \in Requests : text[q] # text[r]

\* C7: score = min(100, 40*E + 30*P + 15*T), E and P at most 1 however
\* many emails or phones occur, T the number of terms that occur.
C7_ScoreFormula ==
  \A r \in Requests :
    Assessed(r) => risk[r] = Min(100, RawSum(text[r]))

C7_Witness ==
  \E r \in Requests :
    Assessed(r) /\ text[r] = "a@b.c a@b.c " /\ risk[r] = 40

\* C8: the places a term may still stand in the text fallback_harden
\* returns: the T of an inserted "Technical Specialist" after "microsof",
\* the final s of an inserted "Structured Database Systems" before "ql".
StartsAt(s, w, i) ==
  i >= 1 /\ i + Len(w) - 1 <= Len(s) /\ SubSeq(s, i, i + Len(w) - 1) = w

Junction(s, k, i) ==
  \/ k = "microsoft" /\ StartsAt(s, "Technical Specialist", i + 8)
  \/ k = "sql" /\ StartsAt(s, "Structured Database Systems", i - 26)

\* C8 as claimed: the returned text holds no term in any letter case
C8_NoTermLeft ==
  \A r \in Requests :
    (Done(r) /\ nlp = "None") => \A k \in Terms : ~HasTerm(safe_text[r], k)

\* C8 as amended: a term stands in the returned text only where an
\* inserted label completes it
C8_OnlyAtJunctions ==
  \A r \in Requests :
    (Done(r) /\ nlp = "None") =>
      \A k \in Terms : \A i \in 1..Len(safe_text[r]) :
        TermAt(safe_text[r], k, i) => Junction(safe_text[r], k, i)

C8_Witness ==
  \E r \in Requests :
    /\ Done(r) /\ nlp = "None"
    /\ HasTerm(text[r], "google") /\ HasTerm(text[r], "sql")
    /\ \A k \in Terms : ~HasTerm(safe_text[r], k)

\* C9: in both paths the text harden returns has no email shape and no
\* run of 10 digits.
C9_NoContactLeft ==
  \A r \in Requests :
    Done(r) => ~EmailShaped(safe_text[r]) /\ ~PhoneShaped(safe_text[r])

C9_Witness ==
  \E r \in Requests :
    /\ Done(r) /\ nlp # "None"
    /\ EmailShaped(text[r]) /\ PhoneShaped(text[r])
    /\ \E i \in 1..Len(ents[r]) : IsHidden(ents[r][i])

\* C10: scoring and hardening agree on the contact indicators.
FirstMatch(p, s) ==
  LET i == CHOOSE x \in 1..Len(s) :
             /\ MatchEnd(p, s, x) # 0
             /\ \A y \in 1..(x - 1) : MatchEnd(p, s, y) = 0
  IN [from |-> i - 1, to |-> MatchEnd(p, s, i) - 1]

\* no redacted span of es shares a character with the first match of p
Untouched(p, s, es) ==
  \A i \in 1..Len(es) :
    IsHidden(es[i]) =>
      (es[i].end <= FirstMatch(p, s).from \/ FirstMatch(p, s).to <= es[i].start)

Spared(p, r) ==
  nlp = "None" \/ (Ascending(ents[r]) /\ Untouched(p, text[r], ents[r]))

====
